---- MODULE Spec2Model ----
(***************************************************************************)
(* Model of the limit order books of ortfero/arena:                        *)
(*   arena::base_book_vector  (include/arena/base_book_vector.hpp)         *)
(*   arena::base_book_map     (include/arena/base_book_map.hpp)            *)
(* A book is a record of its three members orders_, bids_, asks_.  A run   *)
(* constructs one of the two books and applies place/modify/cancel to it.  *)
(***************************************************************************)
EXTENDS Integers, Sequences, FiniteSets, TLC

(* ---- bounds of the model ---- *)
MaxId == 3
MaxPrice == 2
MaxAmount == 1
(* ids used when both books are driven by the same calls *)
MaxBothId == 2
(* LoadBalancer: values of T, number of AddResource calls, of GetResource *)
(* calls with resources and of GetResource calls without *)
MaxResource == 2
MaxAdds == 3
MaxGets == 5
MaxEmptyGets == 2
(* arena::vector: values of T, number of elements pushed, and number of    *)
(* elements of a vector that is copied or moved from                       *)
MaxElem == 2
MaxSize == 17
MaxCopySize == 5
(* number of elements of each vector of a copy assignment *)
MaxAssignSize == 2

Ids == 1..MaxId
Prices == 1..MaxPrice
Amounts == (0 - MaxAmount)..MaxAmount

(* struct order { id, price, amount } *)
Orders == [id : Ids, price : Prices, amount : Amounts]

(* impl : the book implementation the calls go to                          *)
(* vbook: the base_book_vector, mbook: the base_book_map                   *)
(* call : the last call made (operation and its argument)                  *)
(* vret, mret: what the last call returned                                 *)
VARIABLES impl, vbook, mbook, call, vret, mret

(* arrival: the active ids in the order they were placed, recorded by the  *)
(* run that makes only place and cancel calls on the vector book           *)
VARIABLES arrival

(* lb  : the LoadBalancer<T, RoundRobinPolicy> (data_ and policy_.index_)  *)
(* lbh : the last LoadBalancer call, what it returned, and call counts     *)
VARIABLES lb, lbh

(* buffer_: the vector_buffer of an arena::vector                          *)
(* abs    : the sequence the vector stands for                             *)
(* target : a vector copy- or move-constructed from it by the last call    *)
(* vop    : the last arena::vector operation, and whether push_back has    *)
(*          been called                                                    *)
VARIABLES buffer_, abs, target, vop

(* rhs: the vector_buffer of a second arena::vector, the right-hand side   *)
(*      of a copy assignment                                               *)
VARIABLES rhs

bookVars == <<impl, vbook, mbook, call, vret, mret, arrival>>
lbVars == <<lb, lbh>>
vecVars == <<buffer_, abs, target, vop, rhs>>

vars == <<impl, vbook, mbook, call, vret, mret, arrival, lb, lbh, buffer_, abs, target, vop, rhs>>

(* ---- std::optional<order> ---- *)
nullopt == [has_value |-> FALSE]
some(o) == [has_value |-> TRUE, value |-> o]

(* ---- std::unordered_map<uint64_t, order> ---- *)
contains(orders, id) == id \in DOMAIN orders

emplace(orders, id, value) ==
    IF id \in DOMAIN orders
    THEN orders
    ELSE [i \in (DOMAIN orders) \cup {id} |-> IF i = id THEN value ELSE orders[i]]

erase(orders, id) == [i \in (DOMAIN orders) \ {id} |-> orders[i]]

(* ---- std::vector insert / erase at a position (1-based, end = Len+1) ---- *)
InsertAt(s, pos, x) == SubSeq(s, 1, pos - 1) \o <<x>> \o SubSeq(s, pos, Len(s))
RemoveAt(s, pos) == SubSeq(s, 1, pos - 1) \o SubSeq(s, pos + 1, Len(s))

Min(S) == CHOOSE x \in S : \A y \in S : x <= y
Max(S) == CHOOSE x \in S : \A y \in S : x >= y

is_bid(amount) == amount > 0

(***************************************************************************)
(* base_book_vector                                                        *)
(***************************************************************************)

(* std::lower_bound over levels[first .. first+len-1] with the comparator  *)
(* of find_bid_insert (desc: level.price > value) or find_ask_insert       *)
(* (level.price < value); the binary search of the library.                *)
RECURSIVE lower_bound(_, _, _, _, _)
lower_bound(levels, first, len, value, desc) ==
    IF len = 0
    THEN first
    ELSE LET half == len \div 2
             middle == first + half
             before == IF desc THEN levels[middle].price > value
                               ELSE levels[middle].price < value
         IN IF before
            THEN lower_bound(levels, middle + 1, len - half - 1, value, desc)
            ELSE lower_bound(levels, first, half, value, desc)

find_bid_insert_ascending(levels, price) == lower_bound(levels, 1, Len(levels), price, FALSE)

find_bid_insert(levels, price) == lower_bound(levels, 1, Len(levels), price, TRUE)

find_ask_insert(levels, price) == lower_bound(levels, 1, Len(levels), price, FALSE)

(* returns the levels after the call and the iterator (index) returned *)
ensure_bid_level(levels, price) ==
    LET it == find_bid_insert(levels, price)
    IN IF it = Len(levels) + 1 \/ levels[it].price # price
       THEN [levels |-> InsertAt(levels, it, [price |-> price, ids |-> <<>>]), it |-> it]
       ELSE [levels |-> levels, it |-> it]

ensure_ask_level_always_insert(levels, price) ==
    LET it == find_ask_insert(levels, price)
    IN [levels |-> InsertAt(levels, it, [price |-> price, ids |-> <<>>]), it |-> it]

ensure_ask_level(levels, price) ==
    LET it == find_ask_insert(levels, price)
    IN IF it = Len(levels) + 1 \/ levels[it].price # price
       THEN [levels |-> InsertAt(levels, it, [price |-> price, ids |-> <<>>]), it |-> it]
       ELSE [levels |-> levels, it |-> it]

find_bid_level(levels, price) ==
    LET it == find_bid_insert(levels, price)
    IN IF it # Len(levels) + 1 /\ levels[it].price = price
       THEN it
       ELSE Len(levels) + 1

find_ask_level(levels, price) ==
    LET it == find_ask_insert(levels, price)
    IN IF it # Len(levels) + 1 /\ levels[it].price = price
       THEN it
       ELSE Len(levels) + 1

remove_id_from_level_erase(level, id) ==
    LET hits == {i \in 1..Len(level.ids) : level.ids[i] = id}
    IN IF hits = {}
       THEN [level |-> level, ret |-> FALSE]
       ELSE [level |-> [level EXCEPT !.ids = RemoveAt(level.ids, Min(hits))],
             ret |-> TRUE]

remove_id_from_level_pop_only(level, id) ==
    LET hits == {i \in 1..Len(level.ids) : level.ids[i] = id}
    IN IF hits = {}
       THEN [level |-> level, ret |-> FALSE]
       ELSE [level |-> [level EXCEPT !.ids = SubSeq(level.ids, 1, Len(level.ids) - 1)],
             ret |-> TRUE]

(* first i with ids[i] == id: ids[i] = ids.back(); ids.pop_back() *)
remove_id_from_level(level, id) ==
    LET hits == {i \in 1..Len(level.ids) : level.ids[i] = id}
    IN IF hits = {}
       THEN [level |-> level, ret |-> FALSE]
       ELSE LET i == Min(hits)
                n == Len(level.ids)
                moved == [level.ids EXCEPT ![i] = level.ids[n]]
            IN [level |-> [level EXCEPT !.ids = SubSeq(moved, 1, n - 1)],
                ret |-> TRUE]

best_from_levels(orders, levels) ==
    IF Len(levels) = 0
    THEN nullopt
    ELSE LET front == levels[1]
         IN IF Len(front.ids) = 0
            THEN nullopt
            ELSE LET id == front.ids[1]
                 IN IF ~contains(orders, id)
                    THEN nullopt
                    ELSE some(orders[id])

vector_place_no_duplicate_check(b, value) ==
    IF value.amount = 0
    THEN [book |-> b, ret |-> FALSE]
    ELSE LET e == IF is_bid(value.amount) THEN ensure_bid_level(b.bids_, value.price)
                                          ELSE ensure_ask_level(b.asks_, value.price)
             pushed == [e.levels EXCEPT ![e.it].ids = Append(@, value.id)]
         IN [book |-> [orders_ |-> [i \in (DOMAIN b.orders_) \cup {value.id} |->
                                       IF i = value.id THEN value ELSE b.orders_[i]],
                       bids_ |-> IF is_bid(value.amount) THEN pushed ELSE b.bids_,
                       asks_ |-> IF is_bid(value.amount) THEN b.asks_ ELSE pushed],
             ret |-> TRUE]

vector_place(b, value) ==
    IF value.amount = 0 \/ contains(b.orders_, value.id)
    THEN [book |-> b, ret |-> FALSE]
    ELSE LET e == IF is_bid(value.amount) THEN ensure_bid_level(b.bids_, value.price)
                                          ELSE ensure_ask_level(b.asks_, value.price)
             pushed == [e.levels EXCEPT ![e.it].ids = Append(@, value.id)]
         IN [book |-> [orders_ |-> emplace(b.orders_, value.id, value),
                       bids_ |-> IF is_bid(value.amount) THEN pushed ELSE b.bids_,
                       asks_ |-> IF is_bid(value.amount) THEN b.asks_ ELSE pushed],
             ret |-> TRUE]

cancel_level_keep_empty(levels, level_it, id) ==
    IF level_it = Len(levels) + 1
    THEN [levels |-> levels, ret |-> FALSE]
    ELSE LET r == remove_id_from_level(levels[level_it], id)
         IN IF ~r.ret
            THEN [levels |-> levels, ret |-> FALSE]
            ELSE [levels |-> [levels EXCEPT ![level_it] = r.level], ret |-> TRUE]

(* the level branch of cancel for one side: the levels after it, and       *)
(* whether the level was found and held the id                             *)
cancel_level(levels, level_it, id) ==
    IF level_it = Len(levels) + 1
    THEN [levels |-> levels, ret |-> FALSE]
    ELSE LET r == remove_id_from_level(levels[level_it], id)
         IN IF ~r.ret
            THEN [levels |-> levels, ret |-> FALSE]
            ELSE IF Len(r.level.ids) = 0
                 THEN [levels |-> RemoveAt(levels, level_it), ret |-> TRUE]
                 ELSE [levels |-> [levels EXCEPT ![level_it] = r.level], ret |-> TRUE]

vector_cancel_absent_true(b, id) ==
    IF ~contains(b.orders_, id)
    THEN [book |-> b, ret |-> TRUE]
    ELSE LET current == b.orders_[id]
             bid == is_bid(current.amount)
             c == IF bid
                  THEN cancel_level(b.bids_, find_bid_level(b.bids_, current.price), id)
                  ELSE cancel_level(b.asks_, find_ask_level(b.asks_, current.price), id)
         IN IF ~c.ret
            THEN [book |-> b, ret |-> FALSE]
            ELSE [book |-> [orders_ |-> erase(b.orders_, id),
                            bids_ |-> IF bid THEN c.levels ELSE b.bids_,
                            asks_ |-> IF bid THEN b.asks_ ELSE c.levels],
                  ret |-> TRUE]

vector_cancel(b, id) ==
    IF ~contains(b.orders_, id)
    THEN [book |-> b, ret |-> FALSE]
    ELSE LET current == b.orders_[id]
         IN IF is_bid(current.amount)
            THEN LET c == cancel_level(b.bids_, find_bid_level(b.bids_, current.price), id)
                 IN IF ~c.ret
                    THEN [book |-> b, ret |-> FALSE]
                    ELSE [book |-> [orders_ |-> erase(b.orders_, id),
                                    bids_ |-> c.levels,
                                    asks_ |-> b.asks_],
                          ret |-> TRUE]
            ELSE LET c == cancel_level(b.asks_, find_ask_level(b.asks_, current.price), id)
                 IN IF ~c.ret
                    THEN [book |-> b, ret |-> FALSE]
                    ELSE [book |-> [orders_ |-> erase(b.orders_, id),
                                    bids_ |-> b.bids_,
                                    asks_ |-> c.levels],
                          ret |-> TRUE]

vector_modify_without_place(b, value) ==
    IF value.amount = 0
    THEN vector_cancel(b, value.id)
    ELSE IF ~contains(b.orders_, value.id)
         THEN [book |-> b, ret |-> FALSE]
         ELSE vector_cancel(b, value.id)

vector_modify_no_zero_check(b, value) ==
    IF ~contains(b.orders_, value.id)
    THEN [book |-> b, ret |-> FALSE]
    ELSE LET c == vector_cancel(b, value.id)
         IN IF ~c.ret
            THEN [book |-> c.book, ret |-> FALSE]
            ELSE vector_place(c.book, value)

vector_modify(b, value) ==
    IF value.amount = 0
    THEN vector_cancel(b, value.id)
    ELSE IF ~contains(b.orders_, value.id)
         THEN [book |-> b, ret |-> FALSE]
         ELSE LET c == vector_cancel(b, value.id)
              IN IF ~c.ret
                 THEN [book |-> c.book, ret |-> FALSE]
                 ELSE vector_place(c.book, value)

vector_best_bid(b) == best_from_levels(b.orders_, b.bids_)
vector_best_ask(b) == best_from_levels(b.orders_, b.asks_)

(***************************************************************************)
(* base_book_map                                                           *)
(* bid_book / ask_book are std::map<int64_t, uint64_t, Compare>: a         *)
(* sequence of (first, second) entries in iteration order with unique      *)
(* keys; desc = TRUE is std::greater (bids_), FALSE is std::less (asks_).  *)
(***************************************************************************)

(* number of entries ordered before key, plus one: where key is or goes *)
map_position(book, key, desc) ==
    1 + Cardinality({i \in 1..Len(book) :
                        IF desc THEN book[i].first > key ELSE book[i].first < key})

map_has_key(book, key) == \E i \in 1..Len(book) : book[i].first = key

(* std::map::emplace: no insertion when the key is already present *)
map_emplace(book, key, id, desc) ==
    IF map_has_key(book, key)
    THEN book
    ELSE InsertAt(book, map_position(book, key, desc), [first |-> key, second |-> id])

add_to_book(b, value) ==
    IF is_bid(value.amount)
    THEN [book |-> [b EXCEPT !.bids_ = map_emplace(@, value.price, value.id, TRUE)],
          ret |-> TRUE]
    ELSE [book |-> [b EXCEPT !.asks_ = map_emplace(@, value.price, value.id, FALSE)],
          ret |-> TRUE]

remove_entry_keep(book, price, id) ==
    LET hits == {i \in 1..Len(book) : book[i].first = price /\ book[i].second = id}
    IN IF hits = {}
       THEN [entries |-> book, ret |-> FALSE]
       ELSE [entries |-> book, ret |-> TRUE]

(* equal_range(price) scanned for an entry whose second is id; erase it *)
remove_entry(book, price, id) ==
    LET hits == {i \in 1..Len(book) : book[i].first = price /\ book[i].second = id}
    IN IF hits = {}
       THEN [entries |-> book, ret |-> FALSE]
       ELSE [entries |-> RemoveAt(book, Min(hits)), ret |-> TRUE]

remove_from_book(b, value) ==
    IF is_bid(value.amount)
    THEN LET r == remove_entry(b.bids_, value.price, value.id)
         IN [book |-> [b EXCEPT !.bids_ = r.entries], ret |-> r.ret]
    ELSE LET r == remove_entry(b.asks_, value.price, value.id)
         IN [book |-> [b EXCEPT !.asks_ = r.entries], ret |-> r.ret]

best_from_book(orders, book) ==
    IF Len(book) = 0
    THEN nullopt
    ELSE IF ~contains(orders, book[1].second)
         THEN nullopt
         ELSE some(orders[book[1].second])

map_place(b, value) ==
    IF value.amount = 0 \/ contains(b.orders_, value.id)
    THEN [book |-> b, ret |-> FALSE]
    ELSE LET stored == [b EXCEPT !.orders_ = emplace(@, value.id, value)]
             a == add_to_book(stored, value)
         IN IF ~a.ret
            THEN [book |-> [a.book EXCEPT !.orders_ = erase(@, value.id)], ret |-> FALSE]
            ELSE [book |-> a.book, ret |-> TRUE]

map_cancel_keep_entry(b, id) ==
    IF ~contains(b.orders_, id)
    THEN [book |-> b, ret |-> FALSE]
    ELSE [book |-> [b EXCEPT !.orders_ = erase(@, id)], ret |-> TRUE]

map_cancel_erase_first(b, id) ==
    IF ~contains(b.orders_, id)
    THEN [book |-> b, ret |-> FALSE]
    ELSE LET value == b.orders_[id]
             r == remove_from_book([b EXCEPT !.orders_ = erase(@, id)], value)
         IN [book |-> r.book, ret |-> r.ret]

map_cancel(b, id) ==
    IF ~contains(b.orders_, id)
    THEN [book |-> b, ret |-> FALSE]
    ELSE LET value == b.orders_[id]
             r == remove_from_book(b, value)
         IN IF ~r.ret
            THEN [book |-> r.book, ret |-> FALSE]
            ELSE [book |-> [r.book EXCEPT !.orders_ = erase(@, id)], ret |-> TRUE]

map_modify_no_zero_check(b, value) ==
    IF ~contains(b.orders_, value.id)
    THEN [book |-> b, ret |-> FALSE]
    ELSE LET previous == b.orders_[value.id]
         IN IF is_bid(previous.amount) = is_bid(value.amount) /\ previous.price = value.price
            THEN [book |-> [b EXCEPT !.orders_[value.id] = value], ret |-> TRUE]
            ELSE LET r == remove_from_book(b, previous)
                 IN IF ~r.ret
                    THEN [book |-> r.book, ret |-> FALSE]
                    ELSE [book |-> add_to_book([r.book EXCEPT !.orders_[value.id] = value],
                                               value).book,
                          ret |-> TRUE]

map_modify(b, value) ==
    IF value.amount = 0
    THEN map_cancel(b, value.id)
    ELSE IF ~contains(b.orders_, value.id)
         THEN [book |-> b, ret |-> FALSE]
         ELSE LET previous == b.orders_[value.id]
              IN IF is_bid(previous.amount) = is_bid(value.amount)
                    /\ previous.price = value.price
                 THEN [book |-> [b EXCEPT !.orders_[value.id] = value], ret |-> TRUE]
                 ELSE LET r == remove_from_book(b, previous)
                      IN IF ~r.ret
                         THEN [book |-> r.book, ret |-> FALSE]
                         ELSE LET written == [r.book EXCEPT !.orders_[value.id] = value]
                                  a == add_to_book(written, value)
                              IN IF ~a.ret
                                 THEN [book |-> add_to_book(
                                                   [a.book EXCEPT !.orders_[value.id] = previous],
                                                   previous).book,
                                       ret |-> FALSE]
                                 ELSE [book |-> a.book, ret |-> TRUE]

map_best_bid(b) == best_from_book(b.orders_, b.bids_)
map_best_ask(b) == best_from_book(b.orders_, b.asks_)

(***************************************************************************)
(* LoadBalancer<T, RoundRobinPolicy>  (include/arena/probe.hpp)            *)
(***************************************************************************)

Resources == 1..MaxResource

lb_init == [data_ |-> <<>>, index_ |-> 0]

lbh_init == [op |-> "none", ret |-> nullopt, empties |-> 0, succ |-> 0, k |-> 0]

next_index_without_reset(index_, size) == [index_ |-> index_ + 1, ret |-> index_]

next_index_returns_new(index_, size) ==
    LET inc == index_ + 1
    IN [index_ |-> IF inc = size THEN 0 ELSE inc,
        ret |-> IF inc = size THEN 0 ELSE inc]

(* auto const last = index_++; if(index_ == size) index_ = 0; return last; *)
next_index(index_, size) ==
    LET last == index_
        inc == index_ + 1
    IN [index_ |-> IF inc = size THEN 0 ELSE inc, ret |-> last]

AddResource(b, item) == [b EXCEPT !.data_ = Append(@, item)]

GetResource_advance_on_empty(b, outside) ==
    LET n == next_index(b.index_, Len(b.data_))
    IN [lb |-> [b EXCEPT !.index_ = n.index_],
        ret |-> IF Len(b.data_) = 0
                THEN nullopt
                ELSE some(IF n.ret < Len(b.data_) THEN b.data_[n.ret + 1] ELSE outside)]

(* data_[i] with i >= data_.size() is a read outside the vector: any value *)
GetResource(b, outside) ==
    IF Len(b.data_) = 0
    THEN [lb |-> b, ret |-> nullopt]
    ELSE LET n == next_index(b.index_, Len(b.data_))
         IN [lb |-> [b EXCEPT !.index_ = n.index_],
             ret |-> some(IF n.ret < Len(b.data_) THEN b.data_[n.ret + 1] ELSE outside)]

(***************************************************************************)
(* arena::vector<T>  (include/arena/vector.hpp)                            *)
(***************************************************************************)

Elems == 1..MaxElem

(* a cell of allocated storage that holds no constructed element *)
Raw == 0

(* push_back asks for capacity * 3 / 2 + 16 *)
GrowthStep == 16

(* data is the storage as a sequence of capacity cells; data = nullptr is  *)
(* the empty sequence (no allocation of 0 cells is ever made)              *)
buffer_init == [data |-> <<>>, capacity |-> 0, size |-> 0]

no_target == [made |-> "none"]

no_op == [op |-> "none", pushed |-> FALSE]

clear(b) == [data |-> <<>>, capacity |-> 0, size |-> 0]

construct(b, i, item) == [b EXCEPT !.data[i + 1] = item]

destroy(b, i) == [b EXCEPT !.data[i + 1] = Raw]

reallocate_without_elements(b, new_capacity) ==
    [data |-> [i \in 1..new_capacity |-> Raw],
     capacity |-> new_capacity,
     size |-> b.size]

(* new storage, the size elements constructed in it from the old ones, the *)
(* old storage destroyed and deallocated by cleanup()                      *)
reallocate(b, new_capacity) ==
    [data |-> [i \in 1..new_capacity |-> IF i <= b.size THEN b.data[i] ELSE Raw],
     capacity |-> new_capacity,
     size |-> b.size]

vec_empty(b) == b.size = 0
vec_size(b) == b.size
vec_capacity(b) == b.capacity
vec_front(b) == b.data[1]
vec_back(b) == b.data[b.size]

pop_back(b) ==
    IF b.size = 0
    THEN b
    ELSE destroy([b EXCEPT !.size = @ - 1], b.size - 1)

push_back(b, item) ==
    LET r == IF b.size = b.capacity
             THEN reallocate(b, (b.capacity * 3) \div 2 + GrowthStep)
             ELSE b
    IN [construct(r, r.size, item) EXCEPT !.size = @ + 1]

copy_constructor_without_size(other) ==
    IF other.data = <<>>
    THEN buffer_init
    ELSE [data |-> [i \in 1..other.capacity |->
                       IF i <= other.size THEN other.data[i] ELSE Raw],
          capacity |-> other.capacity,
          size |-> 0]

(* vector_buffer(vector_buffer const &other) *)
copy_constructor(other) ==
    IF other.data = <<>>
    THEN buffer_init
    ELSE [data |-> [i \in 1..other.capacity |->
                       IF i <= other.size THEN other.data[i] ELSE Raw],
          capacity |-> other.capacity,
          size |-> other.size]

(* std::copy_n(other.data, n, data) *)
copy_n(b, other, n) ==
    [b EXCEPT !.data = [i \in 1..Len(b.data) |-> IF i <= n THEN other.data[i] ELSE b.data[i]]]

(* vector_buffer &operator=(vector_buffer const &other): when it has fewer *)
(* elements than other it constructs the missing ones and leaves size as   *)
(* it was                                                                  *)
copy_assignment(b, other) ==
    LET a == IF b.capacity < other.size
             THEN [data |-> [i \in 1..other.capacity |-> Raw],
                   capacity |-> other.capacity,
                   size |-> 0]
             ELSE b
    IN IF a.size > other.size
       THEN LET c == copy_n(a, other, other.size)
            IN [c EXCEPT !.data = [i \in 1..Len(c.data) |->
                                      IF other.size < i /\ i <= a.size THEN Raw ELSE c.data[i]],
                         !.size = other.size]
       ELSE IF a.size < other.size
            THEN LET c == copy_n(a, other, a.size)
                 IN [c EXCEPT !.data = [i \in 1..Len(c.data) |->
                                           IF a.size < i /\ i <= other.size
                                           THEN other.data[i] ELSE c.data[i]]]
            ELSE copy_n(a, other, a.size)

(* vector_buffer(vector_buffer &&other): the new buffer and other after it *)
move_constructor(other) ==
    [this |-> [data |-> other.data, capacity |-> other.capacity, size |-> other.size],
     other |-> clear(other)]

(***************************************************************************)
(* A book under place / modify / cancel calls                              *)
(***************************************************************************)

empty_book == [orders_ |-> <<>>, bids_ |-> <<>>, asks_ |-> <<>>]

no_call == [op |-> "none", id |-> 0, price |-> 0, amount |-> 0]

Init ==
    /\ impl \in {"vector", "map"}
    /\ vbook = empty_book
    /\ mbook = empty_book
    /\ call = no_call
    /\ vret = FALSE
    /\ mret = FALSE
    /\ arrival = <<>>
    /\ lb = lb_init
    /\ lbh = lbh_init
    /\ buffer_ = buffer_init
    /\ abs = <<>>
    /\ target = no_target
    /\ vop = no_op
    /\ rhs = buffer_init

(* each call goes to the book that was constructed; the other one does    *)
(* not exist in this run and stays as it is                                *)
Place(o) ==
    /\ call' = [op |-> "place", id |-> o.id, price |-> o.price, amount |-> o.amount]
    /\ impl' = impl
    /\ IF impl = "vector"
       THEN /\ vbook' = vector_place(vbook, o).book
            /\ vret' = vector_place(vbook, o).ret
            /\ UNCHANGED <<mbook, mret>>
       ELSE /\ mbook' = map_place(mbook, o).book
            /\ mret' = map_place(mbook, o).ret
            /\ UNCHANGED <<vbook, vret>>
    /\ UNCHANGED <<arrival, lbVars, vecVars>>

Modify(o) ==
    /\ call' = [op |-> "modify", id |-> o.id, price |-> o.price, amount |-> o.amount]
    /\ impl' = impl
    /\ IF impl = "vector"
       THEN /\ vbook' = vector_modify(vbook, o).book
            /\ vret' = vector_modify(vbook, o).ret
            /\ UNCHANGED <<mbook, mret>>
       ELSE /\ mbook' = map_modify(mbook, o).book
            /\ mret' = map_modify(mbook, o).ret
            /\ UNCHANGED <<vbook, vret>>
    /\ UNCHANGED <<arrival, lbVars, vecVars>>

Cancel(id) ==
    /\ call' = [op |-> "cancel", id |-> id, price |-> 0, amount |-> 0]
    /\ impl' = impl
    /\ IF impl = "vector"
       THEN /\ vbook' = vector_cancel(vbook, id).book
            /\ vret' = vector_cancel(vbook, id).ret
            /\ UNCHANGED <<mbook, mret>>
       ELSE /\ mbook' = map_cancel(mbook, id).book
            /\ mret' = map_cancel(mbook, id).ret
            /\ UNCHANGED <<vbook, vret>>
    /\ UNCHANGED <<arrival, lbVars, vecVars>>

Next ==
    \/ \E o \in Orders : Place(o)
    \/ \E o \in Orders : Modify(o)
    \/ \E id \in Ids : Cancel(id)

Spec == Init /\ [][Next]_vars

(* only place calls, from the empty book *)
NextPlace == \E o \in Orders : Place(o)

SpecPlace == Init /\ [][NextPlace]_vars

(* the vector book under place and cancel calls only, with the order of   *)
(* placement of the active ids recorded                                    *)
InitArrival ==
    /\ impl = "vector"
    /\ vbook = empty_book
    /\ mbook = empty_book
    /\ call = no_call
    /\ vret = FALSE
    /\ mret = FALSE
    /\ arrival = <<>>
    /\ lb = lb_init
    /\ lbh = lbh_init
    /\ buffer_ = buffer_init
    /\ abs = <<>>
    /\ target = no_target
    /\ vop = no_op
    /\ rhs = buffer_init

PlaceArrival(o) ==
    /\ call' = [op |-> "place", id |-> o.id, price |-> o.price, amount |-> o.amount]
    /\ vbook' = vector_place(vbook, o).book
    /\ vret' = vector_place(vbook, o).ret
    /\ arrival' = IF vector_place(vbook, o).ret THEN Append(arrival, o.id) ELSE arrival
    /\ UNCHANGED <<impl, mbook, mret, lbVars, vecVars>>

CancelArrival(id) ==
    /\ call' = [op |-> "cancel", id |-> id, price |-> 0, amount |-> 0]
    /\ vbook' = vector_cancel(vbook, id).book
    /\ vret' = vector_cancel(vbook, id).ret
    /\ arrival' = IF vector_cancel(vbook, id).ret
                  THEN SelectSeq(arrival, LAMBDA x : x # id)
                  ELSE arrival
    /\ UNCHANGED <<impl, mbook, mret, lbVars, vecVars>>

NextArrival ==
    \/ \E o \in Orders : PlaceArrival(o)
    \/ \E id \in Ids : CancelArrival(id)

SpecArrival == InitArrival /\ [][NextArrival]_vars

(* both books constructed and given the same calls *)
BothOrders == {o \in Orders : o.id <= MaxBothId}

InitBoth ==
    /\ impl = "both"
    /\ vbook = empty_book
    /\ mbook = empty_book
    /\ call = no_call
    /\ vret = FALSE
    /\ mret = FALSE
    /\ arrival = <<>>
    /\ lb = lb_init
    /\ lbh = lbh_init
    /\ buffer_ = buffer_init
    /\ abs = <<>>
    /\ target = no_target
    /\ vop = no_op
    /\ rhs = buffer_init

PlaceBoth(o) ==
    /\ call' = [op |-> "place", id |-> o.id, price |-> o.price, amount |-> o.amount]
    /\ vbook' = vector_place(vbook, o).book
    /\ vret' = vector_place(vbook, o).ret
    /\ mbook' = map_place(mbook, o).book
    /\ mret' = map_place(mbook, o).ret
    /\ UNCHANGED <<impl, arrival, lbVars, vecVars>>

ModifyBoth(o) ==
    /\ call' = [op |-> "modify", id |-> o.id, price |-> o.price, amount |-> o.amount]
    /\ vbook' = vector_modify(vbook, o).book
    /\ vret' = vector_modify(vbook, o).ret
    /\ mbook' = map_modify(mbook, o).book
    /\ mret' = map_modify(mbook, o).ret
    /\ UNCHANGED <<impl, arrival, lbVars, vecVars>>

CancelBoth(id) ==
    /\ call' = [op |-> "cancel", id |-> id, price |-> 0, amount |-> 0]
    /\ vbook' = vector_cancel(vbook, id).book
    /\ vret' = vector_cancel(vbook, id).ret
    /\ mbook' = map_cancel(mbook, id).book
    /\ mret' = map_cancel(mbook, id).ret
    /\ UNCHANGED <<impl, arrival, lbVars, vecVars>>

NextBoth ==
    \/ \E o \in BothOrders : PlaceBoth(o)
    \/ \E o \in BothOrders : ModifyBoth(o)
    \/ \E id \in 1..MaxBothId : CancelBoth(id)

SpecBoth == InitBoth /\ [][NextBoth]_vars

(***************************************************************************)
(* A LoadBalancer under AddResource / GetResource calls                    *)
(***************************************************************************)

InitLB ==
    /\ impl = "none"
    /\ vbook = empty_book
    /\ mbook = empty_book
    /\ call = no_call
    /\ vret = FALSE
    /\ mret = FALSE
    /\ arrival = <<>>
    /\ lb = lb_init
    /\ lbh = lbh_init
    /\ buffer_ = buffer_init
    /\ abs = <<>>
    /\ target = no_target
    /\ vop = no_op
    /\ rhs = buffer_init

(* lbh.k counts the GetResource calls on a non-empty balancer since the    *)
(* last AddResource, lbh.succ all of them, lbh.empties those on an empty one *)
LBAdd(item) ==
    /\ Len(lb.data_) < MaxAdds
    /\ lb' = AddResource(lb, item)
    /\ lbh' = [lbh EXCEPT !.op = "add", !.ret = nullopt, !.k = 0]
    /\ UNCHANGED <<bookVars, vecVars>>

LBGet ==
    /\ IF Len(lb.data_) = 0 THEN lbh.empties < MaxEmptyGets ELSE lbh.succ < MaxGets
    /\ \E outside \in Resources :
          LET g == GetResource(lb, outside)
          IN /\ lb' = g.lb
             /\ lbh' = IF Len(lb.data_) = 0
                       THEN [lbh EXCEPT !.op = "get", !.ret = g.ret, !.empties = @ + 1]
                       ELSE [lbh EXCEPT !.op = "get", !.ret = g.ret,
                                        !.succ = @ + 1, !.k = @ + 1]
    /\ UNCHANGED <<bookVars, vecVars>>

NextLB ==
    \/ \E item \in Resources : LBAdd(item)
    \/ LBGet

SpecLB == InitLB /\ [][NextLB]_vars

(***************************************************************************)
(* An arena::vector under push_back / pop_back calls, and one that is also *)
(* copied and moved from                                                   *)
(***************************************************************************)

InitVec ==
    /\ impl = "none"
    /\ vbook = empty_book
    /\ mbook = empty_book
    /\ call = no_call
    /\ vret = FALSE
    /\ mret = FALSE
    /\ arrival = <<>>
    /\ lb = lb_init
    /\ lbh = lbh_init
    /\ buffer_ = buffer_init
    /\ abs = <<>>
    /\ target = no_target
    /\ vop = no_op
    /\ rhs = buffer_init

PushBack(item, bound) ==
    /\ Len(abs) < bound
    /\ buffer_' = push_back(buffer_, item)
    /\ abs' = Append(abs, item)
    /\ target' = no_target
    /\ vop' = [op |-> "push_back", pushed |-> TRUE]
    /\ UNCHANGED <<rhs, bookVars, lbVars>>

PopBack ==
    /\ buffer_' = pop_back(buffer_)
    /\ abs' = IF abs = <<>> THEN abs ELSE SubSeq(abs, 1, Len(abs) - 1)
    /\ target' = no_target
    /\ vop' = [vop EXCEPT !.op = "pop_back"]
    /\ UNCHANGED <<rhs, bookVars, lbVars>>

(* vector copy(source): target is the new vector and the source before *)
CopyConstruct ==
    /\ target' = [made |-> "copy", buffer_ |-> copy_constructor(buffer_), from |-> buffer_]
    /\ vop' = [vop EXCEPT !.op = "copy"]
    /\ UNCHANGED <<buffer_, abs, rhs, bookVars, lbVars>>

(* vector moved(std::move(source)): the source is left cleared *)
MoveConstruct ==
    /\ target' = [made |-> "move", buffer_ |-> move_constructor(buffer_).this, from |-> buffer_]
    /\ buffer_' = move_constructor(buffer_).other
    /\ abs' = <<>>
    /\ vop' = [vop EXCEPT !.op = "move"]
    /\ UNCHANGED <<rhs, bookVars, lbVars>>

NextVec ==
    \/ \E item \in Elems : PushBack(item, MaxSize)
    \/ PopBack

SpecVec == InitVec /\ [][NextVec]_vars

NextVecCopy ==
    \/ \E item \in Elems : PushBack(item, MaxCopySize)
    \/ PopBack
    \/ CopyConstruct
    \/ MoveConstruct

SpecVecCopy == InitVec /\ [][NextVecCopy]_vars

(* two vectors under push_back / pop_back calls and a = b *)
PushBackOther(item) ==
    /\ vec_size(rhs) < MaxAssignSize
    /\ rhs' = push_back(rhs, item)
    /\ target' = no_target
    /\ vop' = [vop EXCEPT !.op = "push_back_other"]
    /\ UNCHANGED <<buffer_, abs, bookVars, lbVars>>

(* a = b: target keeps b as it was before the call *)
CopyAssign ==
    /\ buffer_' = copy_assignment(buffer_, rhs)
    /\ abs' = [i \in 1..rhs.size |-> rhs.data[i]]
    /\ target' = [made |-> "assign", buffer_ |-> copy_assignment(buffer_, rhs), from |-> rhs]
    /\ vop' = [vop EXCEPT !.op = "assign"]
    /\ UNCHANGED <<rhs, bookVars, lbVars>>

NextVecAssign ==
    \/ \E item \in Elems : PushBack(item, MaxAssignSize)
    \/ PopBack
    \/ \E item \in Elems : PushBackOther(item)
    \/ CopyAssign

SpecVecAssign == InitVec /\ [][NextVecAssign]_vars

(***************************************************************************)
(* Vocabulary of the claims                                                *)
(***************************************************************************)

Stored(b) == {b.orders_[i] : i \in DOMAIN b.orders_}
ActiveBids(b) == {o \in Stored(b) : o.amount > 0}
ActiveAsks(b) == {o \in Stored(b) : o.amount < 0}

(* best is an active bid of maximum price, none exactly when there is no bid *)
BestBidIsMax(best, b) ==
    IF ActiveBids(b) = {}
    THEN best = nullopt
    ELSE /\ best.has_value
         /\ best.value \in ActiveBids(b)
         /\ best.value.price = Max({o.price : o \in ActiveBids(b)})

(* best is an active ask of minimum price, none exactly when there is no ask *)
BestAskIsMin(best, b) ==
    IF ActiveAsks(b) = {}
    THEN best = nullopt
    ELSE /\ best.has_value
         /\ best.value \in ActiveAsks(b)
         /\ best.value.price = Min({o.price : o \in ActiveAsks(b)})

(* places of id in the levels of a base_book_vector side: <<level, position>> *)
LevelPlaces(levels, id) ==
    {lp \in (1..Len(levels)) \X (1..MaxId + 1) :
        lp[2] <= Len(levels[lp[1]].ids) /\ levels[lp[1]].ids[lp[2]] = id}

(* id is held by the level of that price in the levels of one side *)
InLevel(levels, price, id) ==
    \E l \in 1..Len(levels) :
        levels[l].price = price /\ \E k \in 1..Len(levels[l].ids) : levels[l].ids[k] = id

(* the entry (price, id) is in a bid_book / ask_book *)
InBook(book, price, id) ==
    \E i \in 1..Len(book) : book[i].first = price /\ book[i].second = id

(* id occurs anywhere in the index of one side *)
VectorIndexed(levels, id) == LevelPlaces(levels, id) # {}
MapIndexed(book, id) == \E i \in 1..Len(book) : book[i].second = id

TwoBidPrices(b) == \E x, y \in ActiveBids(b) : x.price # y.price
TwoAskPrices(b) == \E x, y \in ActiveAsks(b) : x.price # y.price

(***************************************************************************)
(* C1: in base_book_vector, in every state reached by place/modify/cancel  *)
(* best_bid() is an active order with amount > 0 of maximum price among    *)
(* the active bids and none exactly when there is no active bid; best_ask()*)
(* is an active order with amount < 0 of minimum price among the active    *)
(* asks and none exactly when there is none.                               *)
(***************************************************************************)
C1_VectorBestIsExtreme ==
    /\ BestBidIsMax(vector_best_bid(vbook), vbook)
    /\ BestAskIsMin(vector_best_ask(vbook), vbook)

(* a cancel has just succeeded and bids at two prices remain *)
C1_Witness ==
    /\ impl = "vector"
    /\ call.op = "cancel" /\ vret
    /\ TwoBidPrices(vbook)
    /\ vector_best_bid(vbook).has_value

(***************************************************************************)
(* C2: in base_book_map, in every state reached by place/modify/cancel     *)
(* best_bid() is an active order with amount > 0 of maximum price among    *)
(* the active bids and none exactly when there is no active bid; best_ask()*)
(* is an active order with amount < 0 of minimum price and none exactly    *)
(* when there is none.                                                     *)
(***************************************************************************)
C2_MapBestIsExtreme ==
    /\ BestBidIsMax(map_best_bid(mbook), mbook)
    /\ BestAskIsMin(map_best_ask(mbook), mbook)

(***************************************************************************)
(* C3: from an empty book of either kind and under place calls only, after *)
(* every place best_bid() is a placed order of the highest price among the *)
(* placed orders with amount > 0, best_ask() one of the lowest price among *)
(* the placed orders with amount < 0, each none if no order of that side   *)
(* was placed.  (Under place calls alone the store is the set of orders    *)
(* whose place succeeded.)                                                 *)
(***************************************************************************)
C3_PlaceOnlyBestIsExtreme ==
    /\ BestBidIsMax(vector_best_bid(vbook), vbook)
    /\ BestAskIsMin(vector_best_ask(vbook), vbook)
    /\ BestBidIsMax(map_best_bid(mbook), mbook)
    /\ BestAskIsMin(map_best_ask(mbook), mbook)

(* a place has just succeeded on the map book, which now holds bids at two *)
(* prices and two bids at one price                                        *)
C3_Witness ==
    /\ impl = "map"
    /\ call.op = "place" /\ mret
    /\ TwoBidPrices(mbook)
    /\ \E x, y \in ActiveBids(mbook) : x.id # y.id /\ x.price = y.price
    /\ map_best_bid(mbook).has_value

(***************************************************************************)
(* C4: in base_book_map invariant I2 holds in every reachable state: every *)
(* stored order has its id recorded in bids_ (amount > 0) or asks_         *)
(* (amount < 0) under its current price, and every (price, id) entry of    *)
(* bids_/asks_ refers to a stored order with that price and that side.     *)
(***************************************************************************)
C4_MapI2 ==
    /\ \A o \in Stored(mbook) :
          IF is_bid(o.amount) THEN InBook(mbook.bids_, o.price, o.id)
                              ELSE InBook(mbook.asks_, o.price, o.id)
    /\ \A i \in 1..Len(mbook.bids_) :
          /\ contains(mbook.orders_, mbook.bids_[i].second)
          /\ mbook.orders_[mbook.bids_[i].second].price = mbook.bids_[i].first
          /\ mbook.orders_[mbook.bids_[i].second].amount > 0
    /\ \A i \in 1..Len(mbook.asks_) :
          /\ contains(mbook.orders_, mbook.asks_[i].second)
          /\ mbook.orders_[mbook.asks_[i].second].price = mbook.asks_[i].first
          /\ mbook.orders_[mbook.asks_[i].second].amount < 0

(***************************************************************************)
(* C5: in base_book_vector invariant I2 holds in every reachable state:    *)
(* every stored order has its id exactly once in exactly one level, the    *)
(* level of its current price on its side, and every id held in a level of *)
(* bids_/asks_ is the id of a stored order with that level's price and     *)
(* that side.                                                              *)
(***************************************************************************)
C5_VectorI2 ==
    /\ \A o \in Stored(vbook) :
          /\ Cardinality(LevelPlaces(vbook.bids_, o.id))
                + Cardinality(LevelPlaces(vbook.asks_, o.id)) = 1
          /\ IF is_bid(o.amount) THEN InLevel(vbook.bids_, o.price, o.id)
                                 ELSE InLevel(vbook.asks_, o.price, o.id)
    /\ \A l \in 1..Len(vbook.bids_) : \A k \in 1..Len(vbook.bids_[l].ids) :
          /\ contains(vbook.orders_, vbook.bids_[l].ids[k])
          /\ vbook.orders_[vbook.bids_[l].ids[k]].price = vbook.bids_[l].price
          /\ vbook.orders_[vbook.bids_[l].ids[k]].amount > 0
    /\ \A l \in 1..Len(vbook.asks_) : \A k \in 1..Len(vbook.asks_[l].ids) :
          /\ contains(vbook.orders_, vbook.asks_[l].ids[k])
          /\ vbook.orders_[vbook.asks_[l].ids[k]].price = vbook.asks_[l].price
          /\ vbook.orders_[vbook.asks_[l].ids[k]].amount < 0

(* a cancel has just taken an id out of a level that still holds two ids *)
C5_Witness ==
    /\ impl = "vector"
    /\ call.op = "cancel" /\ vret
    /\ \E l \in 1..Len(vbook.bids_) : Len(vbook.bids_[l].ids) >= 2

(***************************************************************************)
(* C6: in both books, in every reachable state and for every order o,      *)
(* place(o) returns false exactly when o.amount = 0 or o.id is in the      *)
(* store, and then leaves the store and both price indexes unchanged;      *)
(* otherwise it returns true and the store then holds o under o.id.        *)
(***************************************************************************)
PlaceContract(r, b, o) ==
    /\ ~r.ret <=> (o.amount = 0 \/ contains(b.orders_, o.id))
    /\ ~r.ret => r.book = b
    /\ r.ret => /\ contains(r.book.orders_, o.id)
                /\ r.book.orders_[o.id] = o
                /\ DOMAIN r.book.orders_ = (DOMAIN b.orders_) \cup {o.id}
                /\ \A i \in DOMAIN b.orders_ : r.book.orders_[i] = b.orders_[i]

C6_PlaceRejectsExactly ==
    \A o \in Orders :
        /\ PlaceContract(vector_place(vbook, o), vbook, o)
        /\ PlaceContract(map_place(mbook, o), mbook, o)

(* a place of a non-zero order under an active id has just been rejected   *)
(* by the vector book, and the active order is not the one offered         *)
C6_Witness ==
    /\ impl = "vector"
    /\ call.op = "place" /\ ~vret /\ call.amount # 0
    /\ contains(vbook.orders_, call.id)
    /\ \/ vbook.orders_[call.id].price # call.price
       \/ vbook.orders_[call.id].amount # call.amount

(***************************************************************************)
(* C7: in both books no stored order has amount = 0 in any reachable       *)
(* state: place rejects a zero amount and modify with a zero amount never  *)
(* writes the order into the store.                                        *)
(***************************************************************************)
C7_NoZeroAmountStored ==
    /\ \A o \in Stored(vbook) : o.amount # 0
    /\ \A o \in Stored(mbook) : o.amount # 0
    /\ \A o \in Orders : o.amount = 0 =>
          /\ ~vector_place(vbook, o).ret
          /\ ~map_place(mbook, o).ret
          /\ \A x \in Stored(vector_modify(vbook, o).book) : x.amount # 0
          /\ \A x \in Stored(map_modify(mbook, o).book) : x.amount # 0

(* a modify with a zero amount has just succeeded on the map book and      *)
(* taken its id out of the store, where other orders remain                *)
C7_Witness ==
    /\ impl = "map"
    /\ call.op = "modify" /\ call.amount = 0 /\ mret
    /\ ~contains(mbook.orders_, call.id)
    /\ Stored(mbook) # {}

(***************************************************************************)
(* C8: in both books, in every reachable state and for every id,           *)
(* cancel(id) returns true if and only if id is in the store before the    *)
(* call, and after a successful cancel the id is absent from the store and *)
(* from both price indexes.                                                *)
(***************************************************************************)
C8_CancelIffActive ==
    \A id \in Ids :
        /\ LET r == vector_cancel(vbook, id)
           IN /\ r.ret <=> contains(vbook.orders_, id)
              /\ r.ret => /\ ~contains(r.book.orders_, id)
                          /\ ~VectorIndexed(r.book.bids_, id)
                          /\ ~VectorIndexed(r.book.asks_, id)
        /\ LET r == map_cancel(mbook, id)
           IN /\ r.ret <=> contains(mbook.orders_, id)
              /\ r.ret => /\ ~contains(r.book.orders_, id)
                          /\ ~MapIndexed(r.book.bids_, id)
                          /\ ~MapIndexed(r.book.asks_, id)

(***************************************************************************)
(* C9: in both books, if modify(o) with o.amount # 0 returns true and o    *)
(* differs from the stored order of o.id in price or side, then afterwards *)
(* the store holds exactly o under o.id, o.id is indexed at o.price on o's *)
(* side, and o.id is no longer indexed at the previous price and side.     *)
(***************************************************************************)
Moves(b, o) ==
    /\ o.amount # 0
    /\ contains(b.orders_, o.id)
    /\ \/ b.orders_[o.id].price # o.price
       \/ is_bid(b.orders_[o.id].amount) # is_bid(o.amount)

C9_ModifyMoves ==
    \A o \in Orders :
        /\ (Moves(vbook, o) /\ vector_modify(vbook, o).ret) =>
              LET r == vector_modify(vbook, o).book
                  previous == vbook.orders_[o.id]
              IN /\ contains(r.orders_, o.id) /\ r.orders_[o.id] = o
                 /\ InLevel(IF is_bid(o.amount) THEN r.bids_ ELSE r.asks_, o.price, o.id)
                 /\ ~InLevel(IF is_bid(previous.amount) THEN r.bids_ ELSE r.asks_,
                             previous.price, o.id)
        /\ (Moves(mbook, o) /\ map_modify(mbook, o).ret) =>
              LET r == map_modify(mbook, o).book
                  previous == mbook.orders_[o.id]
              IN /\ contains(r.orders_, o.id) /\ r.orders_[o.id] = o
                 /\ InBook(IF is_bid(o.amount) THEN r.bids_ ELSE r.asks_, o.price, o.id)
                 /\ ~InBook(IF is_bid(previous.amount) THEN r.bids_ ELSE r.asks_,
                            previous.price, o.id)

(***************************************************************************)
(* C10: in both books, modify(o) with o.amount # 0 on an active id whose   *)
(* stored order has the side and the price of o leaves both price indexes  *)
(* as they were, the order of ids inside each level included, so           *)
(* best_bid() and best_ask() return the same order ids as before.          *)
(***************************************************************************)
SameLevel(b, o) ==
    /\ o.amount # 0
    /\ contains(b.orders_, o.id)
    /\ b.orders_[o.id].price = o.price
    /\ is_bid(b.orders_[o.id].amount) = is_bid(o.amount)

BestId(best) == IF best.has_value THEN best.value.id ELSE 0

C10_ModifyInPlaceKeepsIndex ==
    \A o \in Orders :
        /\ SameLevel(vbook, o) =>
              LET r == vector_modify(vbook, o).book
              IN /\ r.bids_ = vbook.bids_
                 /\ r.asks_ = vbook.asks_
                 /\ BestId(vector_best_bid(r)) = BestId(vector_best_bid(vbook))
                 /\ BestId(vector_best_ask(r)) = BestId(vector_best_ask(vbook))
        /\ SameLevel(mbook, o) =>
              LET r == map_modify(mbook, o).book
              IN /\ r.bids_ = mbook.bids_
                 /\ r.asks_ = mbook.asks_
                 /\ BestId(map_best_bid(r)) = BestId(map_best_bid(mbook))
                 /\ BestId(map_best_ask(r)) = BestId(map_best_ask(mbook))

(***************************************************************************)
(* C11: in both books, in every reachable state and for every id and every *)
(* price p, modify({id, p, 0}) has the effect of cancel(id): it returns    *)
(* the same boolean and leaves the same store and the same price indexes,  *)
(* hence the same best_bid() and best_ask().                               *)
(***************************************************************************)
ZeroOrder(id, p) == [id |-> id, price |-> p, amount |-> 0]

C11_ModifyZeroIsCancel ==
    \A id \in Ids : \A p \in Prices :
        /\ LET m == vector_modify(vbook, ZeroOrder(id, p))
               c == vector_cancel(vbook, id)
           IN /\ m.ret = c.ret
              /\ m.book = c.book
              /\ vector_best_bid(m.book) = vector_best_bid(c.book)
              /\ vector_best_ask(m.book) = vector_best_ask(c.book)
        /\ LET m == map_modify(mbook, ZeroOrder(id, p))
               c == map_cancel(mbook, id)
           IN /\ m.ret = c.ret
              /\ m.book = c.book
              /\ map_best_bid(m.book) = map_best_bid(c.book)
              /\ map_best_ask(m.book) = map_best_ask(c.book)

(* a modify with a zero amount has just removed an order from the vector   *)
(* book, at a price that is not the price the order had, leaving others    *)
C11_Witness ==
    /\ impl = "vector"
    /\ call.op = "modify" /\ call.amount = 0 /\ vret
    /\ ~contains(vbook.orders_, call.id)
    /\ Stored(vbook) # {}
    /\ \A l \in 1..Len(vbook.asks_) : vbook.asks_[l].price # call.price
    /\ \A l \in 1..Len(vbook.bids_) : vbook.bids_[l].price # call.price

(***************************************************************************)
(* C12: in both books, in every reachable state and for every order o for  *)
(* which place(o) returns true, cancel(o.id) called right after it leaves  *)
(* best_bid() and best_ask() equal to what they were before the place.     *)
(***************************************************************************)
C12_PlaceCancelRoundTrip ==
    \A o \in Orders :
        /\ LET p == vector_place(vbook, o)
               c == vector_cancel(p.book, o.id)
           IN p.ret => /\ vector_best_bid(c.book) = vector_best_bid(vbook)
                       /\ vector_best_ask(c.book) = vector_best_ask(vbook)
        /\ LET p == map_place(mbook, o)
               c == map_cancel(p.book, o.id)
           IN p.ret => /\ map_best_bid(c.book) = map_best_bid(mbook)
                       /\ map_best_ask(c.book) = map_best_ask(mbook)

(* the map book holds a best bid, a cancel has just succeeded on it, and   *)
(* an order can be placed that becomes the best bid and is cancelled again *)
C12_Witness ==
    /\ impl = "map"
    /\ call.op = "cancel" /\ mret
    /\ map_best_bid(mbook).has_value
    /\ \E o \in Orders :
          LET p == map_place(mbook, o)
              c == map_cancel(p.book, o.id)
          IN /\ p.ret
             /\ map_best_bid(p.book) = some(o)
             /\ map_best_bid(p.book) # map_best_bid(mbook)
             /\ c.ret

(***************************************************************************)
(* C13: in both books, in every reachable state, a call to place, modify   *)
(* or cancel that returns false leaves the store and both price indexes    *)
(* exactly as they were before the call.                                   *)
(***************************************************************************)
C13_FalseLeavesBookUnchanged ==
    /\ \A o \in Orders :
          /\ ~vector_place(vbook, o).ret => vector_place(vbook, o).book = vbook
          /\ ~vector_modify(vbook, o).ret => vector_modify(vbook, o).book = vbook
          /\ ~map_place(mbook, o).ret => map_place(mbook, o).book = mbook
          /\ ~map_modify(mbook, o).ret => map_modify(mbook, o).book = mbook
    /\ \A id \in Ids :
          /\ ~vector_cancel(vbook, id).ret => vector_cancel(vbook, id).book = vbook
          /\ ~map_cancel(mbook, id).ret => map_cancel(mbook, id).book = mbook

(* the failure path inside cancel: a cancel of an order that is in the     *)
(* store of the map book has just returned false                           *)
C13_Witness ==
    /\ impl = "map"
    /\ call.op = "cancel" /\ ~mret
    /\ contains(mbook.orders_, call.id)
    /\ ~MapIndexed(mbook.bids_, call.id)
    /\ ~MapIndexed(mbook.asks_, call.id)

(***************************************************************************)
(* C14: base_book_map and base_book_vector have the same external          *)
(* behaviour: run side by side from empty books on the same sequence of    *)
(* place/modify/cancel calls, every call returns the same boolean in both  *)
(* and best_bid() and best_ask() return the same order, or both none,      *)
(* after every call.                                                       *)
(***************************************************************************)
C14_BooksAgree ==
    impl = "both" =>
        /\ vret = mret
        /\ vector_best_bid(vbook) = map_best_bid(mbook)
        /\ vector_best_ask(vbook) = map_best_ask(mbook)

(***************************************************************************)
(* C15: in both books the set of active ids follows the per-order state    *)
(* machine absent -> active -> absent: across every call, an id enters the *)
(* store only through a place that returns true, leaves it only through a  *)
(* cancel or a zero-amount modify that returns true, and a modify with a   *)
(* non-zero amount never changes which ids are active, whatever it returns.*)
(***************************************************************************)
ActiveIds == IF impl = "vector" THEN DOMAIN vbook.orders_ ELSE DOMAIN mbook.orders_
Returned == IF impl = "vector" THEN vret ELSE mret

Lifecycle ==
    LET entered == ActiveIds' \ ActiveIds
        left == ActiveIds \ ActiveIds'
    IN /\ entered # {} =>
             /\ call'.op = "place"
             /\ Returned'
             /\ entered = {call'.id}
             /\ left = {}
       /\ left # {} =>
             /\ call'.op = "cancel" \/ (call'.op = "modify" /\ call'.amount = 0)
             /\ Returned'
             /\ left = {call'.id}
             /\ entered = {}
       /\ (call'.op = "modify" /\ call'.amount # 0) => ActiveIds' = ActiveIds

C15_OrderLifecycle == [][Lifecycle]_vars

(* a modify with a non-zero amount has just succeeded on a book holding    *)
(* another order as well, and its id is still active                       *)
C15_Witness ==
    /\ impl = "vector"
    /\ call.op = "modify"
    /\ call.amount # 0
    /\ vret
    /\ contains(vbook.orders_, call.id)
    /\ vbook.orders_[call.id].price = call.price
    /\ \E id \in DOMAIN vbook.orders_ : id # call.id

(***************************************************************************)
(* C16: in both books, for every reachable state and every id, when        *)
(* cancel(id) is called twice in a row the second call returns false and   *)
(* changes nothing.                                                        *)
(***************************************************************************)
C16_SecondCancelFails ==
    \A id \in Ids :
        /\ LET first == vector_cancel(vbook, id)
               second == vector_cancel(first.book, id)
           IN /\ ~second.ret
              /\ second.book = first.book
        /\ LET first == map_cancel(mbook, id)
               second == map_cancel(first.book, id)
           IN /\ ~second.ret
              /\ second.book = first.book

(* cancel has just returned true on the vector book, the book still holds  *)
(* an order, and cancelling the same id again returns false                *)
C16_Witness ==
    /\ impl = "vector"
    /\ call.op = "cancel"
    /\ vret
    /\ ~contains(vbook.orders_, call.id)
    /\ Stored(vbook) # {}
    /\ ~vector_cancel(vbook, call.id).ret

(***************************************************************************)
(* C17: LoadBalancer::GetResource is round-robin: after AddResource has    *)
(* been called n >= 1 times with values r0..r(n-1) and no AddResource      *)
(* follows, the k-th GetResource call (k = 0, 1, 2, ...) returns           *)
(* r(k mod n).  Here lbh.k - 1 is the k of the call just made, and         *)
(* lbh.succ = lbh.k says that every GetResource made on a non-empty        *)
(* balancer came after the last AddResource.                               *)
(***************************************************************************)
C17_RoundRobin ==
    (lbh.op = "get" /\ Len(lb.data_) >= 1 /\ lbh.succ = lbh.k) =>
        lbh.ret = some(lb.data_[((lbh.k - 1) % Len(lb.data_)) + 1])

(* the fourth GetResource on three resources has gone round to the first *)
C17_Witness ==
    /\ lbh.op = "get"
    /\ Len(lb.data_) = 3
    /\ lb.data_[1] # lb.data_[3]
    /\ lbh.succ = lbh.k
    /\ lbh.k = 4
    /\ lbh.ret = some(lb.data_[1])

(***************************************************************************)
(* C18: GetResource on a LoadBalancer with no resources returns an empty   *)
(* optional and does not advance the round-robin cursor, so the first      *)
(* GetResource after the first AddResource returns the first added         *)
(* resource however many calls on the empty balancer preceded it.          *)
(***************************************************************************)
C18_EmptyGetKeepsCursor ==
    /\ Len(lb.data_) = 0 =>
          /\ lb.index_ = 0
          /\ \A outside \in Resources :
                GetResource(lb, outside) = [lb |-> lb, ret |-> nullopt]
          /\ lbh.op = "get" => lbh.ret = nullopt
    /\ (lbh.op = "get" /\ lbh.succ = 1) => lbh.ret = some(lb.data_[1])

(* two calls on the empty balancer, then resources, then the first         *)
(* GetResource that returns one                                            *)
C18_Witness ==
    /\ lbh.op = "get"
    /\ lbh.empties = 2
    /\ lbh.succ = 1
    /\ Len(lb.data_) = 2
    /\ lb.data_[1] # lb.data_[2]
    /\ lbh.ret = some(lb.data_[1])

(***************************************************************************)
(* C19: arena::vector behaves as a sequence under push_back/pop_back: for  *)
(* any sequence of these calls from a default-constructed vector, size()   *)
(* is the length of the abstract sequence, empty() holds iff size() == 0,  *)
(* front()/back() are its first/last elements when it is non-empty,        *)
(* size() <= capacity() always, capacity() is 0 before the first push_back *)
(* and never decreases afterwards (pop_back keeps it), and pop_back on an  *)
(* empty vector changes nothing.                                           *)
(***************************************************************************)
Elements(b) == [i \in 1..b.size |-> b.data[i]]

C19_VectorIsSequence ==
    /\ vec_size(buffer_) = Len(abs)
    /\ vec_empty(buffer_) <=> abs = <<>>
    /\ vec_empty(buffer_) <=> vec_size(buffer_) = 0
    /\ Elements(buffer_) = abs
    /\ abs # <<>> =>
          /\ vec_front(buffer_) = abs[1]
          /\ vec_back(buffer_) = abs[Len(abs)]
    /\ vec_size(buffer_) <= vec_capacity(buffer_)
    /\ ~vop.pushed => vec_capacity(buffer_) = 0
    /\ vec_capacity(pop_back(buffer_)) = vec_capacity(buffer_)
    /\ \A item \in Elems :
          vec_capacity(push_back(buffer_, item)) >= vec_capacity(buffer_)
    /\ abs = <<>> => pop_back(buffer_) = buffer_

(* the push_back that found the first storage full has moved the elements  *)
(* to a larger one                                                         *)
C19_Witness ==
    /\ vop.op = "push_back"
    /\ vec_size(buffer_) = GrowthStep + 1
    /\ vec_capacity(buffer_) > vec_size(buffer_)
    /\ vec_front(buffer_) # vec_back(buffer_)
    /\ vec_front(buffer_) = abs[1]

(***************************************************************************)
(* C20: copy-constructing an arena::vector from a source yields a vector   *)
(* with the same size and the same elements in the same order and leaves   *)
(* the source unchanged; move-constructing yields a vector with the        *)
(* source's former elements and leaves the source with size() == 0,        *)
(* capacity() == 0 and empty() true.                                       *)
(***************************************************************************)
C20_CopyAndMove ==
    /\ target.made = "copy" =>
          /\ vec_size(target.buffer_) = vec_size(target.from)
          /\ Elements(target.buffer_) = Elements(target.from)
          /\ Elements(target.buffer_) = abs
          /\ buffer_ = target.from
    /\ target.made = "move" =>
          /\ vec_size(target.buffer_) = vec_size(target.from)
          /\ Elements(target.buffer_) = Elements(target.from)
          /\ vec_size(buffer_) = 0
          /\ vec_capacity(buffer_) = 0
          /\ vec_empty(buffer_)

(* a copy has been made of a vector of several different elements *)
C20_Witness ==
    /\ target.made = "copy"
    /\ vec_size(target.buffer_) >= 2
    /\ vec_front(target.buffer_) # vec_back(target.buffer_)
    /\ vec_front(buffer_) = vec_front(target.buffer_)

(***************************************************************************)
(* C21: in base_book_vector, in every state reachable by place/modify/     *)
(* cancel the level sequences are well formed: bids_ is strictly           *)
(* descending by price, asks_ is strictly ascending by price, no two       *)
(* levels of one side share a price, and no level has an empty id sequence.*)
(***************************************************************************)
NoEmptyLevel(levels) == \A l \in 1..Len(levels) : Len(levels[l].ids) > 0

DistinctPrices(levels) ==
    \A l, m \in 1..Len(levels) : l # m => levels[l].price # levels[m].price

C21_LevelsWellFormed ==
    /\ \A l \in 1..Len(vbook.bids_) - 1 : vbook.bids_[l].price > vbook.bids_[l + 1].price
    /\ \A l \in 1..Len(vbook.asks_) - 1 : vbook.asks_[l].price < vbook.asks_[l + 1].price
    /\ DistinctPrices(vbook.bids_)
    /\ DistinctPrices(vbook.asks_)
    /\ NoEmptyLevel(vbook.bids_)
    /\ NoEmptyLevel(vbook.asks_)

(* a cancel has just succeeded and left two bid levels and no ask level,    *)
(* and an ask can be placed again                                          *)
C21_Witness ==
    /\ impl = "vector"
    /\ call.op = "cancel" /\ vret
    /\ Len(vbook.bids_) = 2
    /\ vbook.asks_ = <<>>
    /\ ActiveAsks(vbook) = {}
    /\ \E o \in Orders : o.amount < 0 /\ ~contains(vbook.orders_, o.id)
                             /\ vector_place(vbook, o).ret

(***************************************************************************)
(* C22: in base_book_vector, removing an id from a price level overwrites  *)
(* it with the level's last id and pops, so arrival order inside a level   *)
(* is not preserved: every successful cancel leaves the level of the       *)
(* cancelled order with its former last id in the cancelled id's place and *)
(* the other ids where they were (or erases the level when the id was      *)
(* alone), and a state is reachable by place/cancel in which best_bid()    *)
(* returns an order placed later than another order still active at the    *)
(* same price on the same side (C22_Witness).                              *)
(***************************************************************************)
LevelIds(levels, price) ==
    IF \E l \in 1..Len(levels) : levels[l].price = price
    THEN levels[CHOOSE l \in 1..Len(levels) : levels[l].price = price].ids
    ELSE <<>>

ArrivedBefore(x, y) ==
    \E i, j \in 1..Len(arrival) : i < j /\ arrival[i] = x /\ arrival[j] = y

CancelSwapsWithLast ==
    (call'.op = "cancel" /\ vret') =>
        LET cancelled == vbook.orders_[call'.id]
            bid == is_bid(cancelled.amount)
            was == LevelIds(IF bid THEN vbook.bids_ ELSE vbook.asks_, cancelled.price)
            now == LevelIds(IF bid THEN vbook'.bids_ ELSE vbook'.asks_, cancelled.price)
            n == Len(was)
            i == CHOOSE k \in 1..n : was[k] = call'.id
        IN /\ Len(now) = n - 1
           /\ \A k \in 1..n - 1 : now[k] = IF k = i THEN was[n] ELSE was[k]

C22_RemoveSwapsWithLast == [][CancelSwapsWithLast]_vars

(* after a cancel, the best bid arrived later than another active bid at   *)
(* its price                                                               *)
C22_Witness ==
    /\ impl = "vector"
    /\ call.op = "cancel" /\ vret
    /\ vector_best_bid(vbook).has_value
    /\ \E earlier \in ActiveBids(vbook) :
          /\ earlier.price = vector_best_bid(vbook).value.price
          /\ ArrivedBefore(earlier.id, vector_best_bid(vbook).value.id)

(***************************************************************************)
(* C23: in both books, in every reachable state a non-empty price index    *)
(* resolves through the store: if bids_ (resp. asks_) is non-empty then    *)
(* best_bid() (resp. best_ask()) returns a value, any order returned by    *)
(* best_bid() is in the store with amount > 0 and any order returned by    *)
(* best_ask() is in the store with amount < 0; the fallback to none for an *)
(* id absent from the store is never taken.                                *)
(***************************************************************************)
Resolves(index, bestBid, bestAsk, b) ==
    /\ Len(index.bids_) > 0 => bestBid.has_value
    /\ Len(index.asks_) > 0 => bestAsk.has_value
    /\ bestBid.has_value => bestBid.value \in ActiveBids(b)
    /\ bestAsk.has_value => bestAsk.value \in ActiveAsks(b)

C23_IndexResolves ==
    /\ Resolves(vbook, vector_best_bid(vbook), vector_best_ask(vbook), vbook)
    /\ \A l \in 1..Len(vbook.bids_) :
          \A k \in 1..Len(vbook.bids_[l].ids) : contains(vbook.orders_, vbook.bids_[l].ids[k])
    /\ \A l \in 1..Len(vbook.asks_) :
          \A k \in 1..Len(vbook.asks_[l].ids) : contains(vbook.orders_, vbook.asks_[l].ids[k])
    /\ Resolves(mbook, map_best_bid(mbook), map_best_ask(mbook), mbook)
    /\ \A i \in 1..Len(mbook.bids_) : contains(mbook.orders_, mbook.bids_[i].second)
    /\ \A i \in 1..Len(mbook.asks_) : contains(mbook.orders_, mbook.asks_[i].second)

(* a cancel has just succeeded on the map book and both indexes still      *)
(* resolve to stored orders                                                *)
C23_Witness ==
    /\ impl = "map"
    /\ call.op = "cancel" /\ mret
    /\ Len(mbook.bids_) > 0
    /\ Len(mbook.asks_) > 0
    /\ map_best_bid(mbook).has_value
    /\ map_best_ask(mbook).has_value

(***************************************************************************)
(* C24: for LoadBalancer with RoundRobinPolicy, under any interleaving of  *)
(* AddResource and GetResource calls the cursor index_ is less than the    *)
(* number of resources whenever there is one (and 0 while there are none), *)
(* so GetResource never reads outside data_, and each GetResource advances *)
(* the cursor by exactly one position modulo the resource count at the     *)
(* time of the call.                                                       *)
(***************************************************************************)
C24_CursorInRange ==
    /\ Len(lb.data_) = 0 => lb.index_ = 0
    /\ Len(lb.data_) >= 1 =>
          /\ lb.index_ < Len(lb.data_)
          /\ \A outside \in Resources :
                LET g == GetResource(lb, outside)
                IN /\ g.ret = some(lb.data_[lb.index_ + 1])
                   /\ g.lb.index_ = (lb.index_ + 1) % Len(lb.data_)
                   /\ g.lb.data_ = lb.data_

(* GetResource has wrapped the cursor to 0 on three resources, one of      *)
(* which was added after an earlier GetResource                            *)
C24_Witness ==
    /\ lbh.op = "get"
    /\ Len(lb.data_) = 3
    /\ lbh.k < lbh.succ
    /\ lb.index_ = 0
    /\ lbh.ret = some(lb.data_[3])

(***************************************************************************)
(* C25: copy assignment of arena::vector (a = b) makes a equal to b for    *)
(* every pair of sizes: afterwards a.size() == b.size() and a holds b's    *)
(* elements in order, both when a was larger than b and when a was smaller *)
(* (including when a must reallocate because a.capacity() < b.size());     *)
(* b is unchanged.                                                         *)
(***************************************************************************)
C25_CopyAssignment ==
    target.made = "assign" =>
        /\ vec_size(buffer_) = vec_size(rhs)
        /\ Elements(buffer_) = Elements(rhs)
        /\ rhs = target.from

====
